---- MODULE Spec2Model ----
(***************************************************************************)
(* The agent execution core of backend/agent.ts: callAgent builds a        *)
(* LangGraph StateGraph (agent -> tools -> agent ...), compiles it with a  *)
(* MongoDBSaver checkpointer and invokes it once per chat request with     *)
(* recursionLimit 15 on the caller's thread_id.                            *)
(*                                                                         *)
(* One request is one call of callAgent.  The steps of a request are the   *)
(* supersteps of the compiled graph: the input step, then one step per     *)
(* node run; the checkpointer is given to compile(), so every step ends    *)
(* with the thread's checkpoint written.  Requests interleave at their     *)
(* awaits: callAgent holds no lock.                                        *)
(*                                                                         *)
(* The Gemini variant of callAgent (its credential test, its choice of the *)
(* model with or without tools, its thought-signature patch) and the chat  *)
(* page ChatApp.tsx (sendMessage, handleKeyDown, the Send button) are      *)
(* further specifications over the same variables.                         *)
(***************************************************************************)
EXTENDS Integers, Sequences, FiniteSets, TLC

(* ------------------------------ bounds --------------------------------- *)

\* Number of callAgent calls made in one run of the model.
MaxReqs == 2

\* Number of chat requests the page sends in one run of the model.
MaxSends == 3

\* Largest number of ToolCalls the model puts in one response.
MaxCalls == 2

\* AGENT turns of an invocation, counted from its first, in which the model may
\* put more than one ToolCall in its response.
MaxWideTurn == 1

(* -------------------------- program constants -------------------------- *)

\* { recursionLimit: 15, ... } given to app.invoke.
RecursionLimit == 15

Reqs == 1..MaxReqs

\* thread_id values of the callers.
Threads == {"t1", "t2"}

\* query argument of the r-th call.
Query(r) == IF r % 2 = 1 THEN "hello" ELSE "tell me more"

\* Contents of a model response that carries no ToolCall.
Texts == {"FINAL ANSWER"}

\* What the tool's handler returns: JSON.stringify(result).
ToolResults == {"docs"}

NoId == <<>>

\* useState<string | null>(null): the page's threadId when it has none.
NoThread == "null"

VARIABLES
    saved,     \* checkpoint store: thread_id -> messages of its latest checkpoint
    pc,        \* request -> where the call of callAgent is
    tid,       \* request -> thread_id argument
    msgs,      \* request -> state.messages of the running graph
    step,      \* request -> supersteps run by this invocation
    response,  \* request -> the model's last response as the provider sent it
    ui         \* the chat page: its React state and its fetches

vars == <<saved, pc, tid, msgs, step, response, ui>>

(* ------------------------------ messages ------------------------------- *)

HumanMessage(q) ==
    [role |-> "user", content |-> q, tool_calls |-> <<>>, tool_call_id |-> NoId]

AIMessage(c, calls) ==
    [role |-> "agent", content |-> c, tool_calls |-> calls, tool_call_id |-> NoId]

ToolMessage(call, c) ==
    [role |-> "tool", content |-> c, tool_calls |-> <<>>, tool_call_id |-> call.id]

\* The k-th ToolCall of the response that request r appends at position pos.
ToolCall(r, pos, k) ==
    [id |-> <<r, pos, k>>, name |-> "principle_lookup"]

Last(s) == s[Len(s)]

\* A reducer that puts the update in front of what the channel holds.
Reducer_Prepends(x, y) == y \o x

\* reducer: (x, y) => x.concat(y)
Reducer(x, y) == x \o y

(* ------------------------------ the graph ------------------------------ *)

\* shouldContinue with the test of the ToolCalls' number off by one.
shouldContinue_OffByOne(messages) ==
    IF Len(Last(messages).tool_calls) > 1 THEN "tools" ELSE "done"

shouldContinue(messages) ==
    IF Len(Last(messages).tool_calls) > 0 THEN "tools" ELSE "done"

\* callModel: the response of model.invoke, appended by the reducer.
callModel(r, messages, n, c) ==
    LET pos == Len(messages) + 1
        calls == [k \in 1..n |-> ToolCall(r, pos, k)]
    IN  <<AIMessage(IF n = 0 THEN c ELSE "", calls)>>

\* toolNode answering the ToolCalls in reverse order.
toolNode_Reversed(messages, outs) ==
    LET calls == Last(messages).tool_calls
        n == Len(calls)
    IN  [k \in 1..n |-> ToolMessage(calls[n + 1 - k], outs[k])]

\* toolNode giving up on the batch at the first call that fails.
toolNode_StopsAtError(messages, outs) ==
    LET calls == Last(messages).tool_calls
        bad == {k \in 1..Len(calls) : outs[k].error}
        upto == IF bad = {} THEN Len(calls) ELSE CHOOSE k \in bad : \A j \in bad : k <= j
    IN  [k \in 1..upto |-> ToolMessage(calls[k], outs[k])]

\* toolNode: one ToolMessage per ToolCall of the last message, in order.
toolNode(messages, outs) ==
    LET calls == Last(messages).tool_calls
    IN  [k \in 1..Len(calls) |-> ToolMessage(calls[k], outs[k])]

\* The checkpointer's serializer: a message is stored as its constructor's
\* name and its fields, and rebuilt from them when the checkpoint is read.
ClassOf(role) ==
    CASE role = "user" -> "HumanMessage"
      [] role = "agent" -> "AIMessage"
      [] role = "tool" -> "ToolMessage"

RoleOf(class) ==
    CASE class = "HumanMessage" -> "user"
      [] class = "AIMessage" -> "agent"
      [] class = "ToolMessage" -> "tool"

\* A serializer that leaves tool_call_id out of what it stores.
dumpMessage_NoToolCallId(m) ==
    [lc |-> 1, id |-> ClassOf(m.role),
     kwargs |-> [content |-> m.content, tool_calls |-> m.tool_calls,
                 tool_call_id |-> NoId]]

dumpMessage(m) ==
    [lc |-> 1, id |-> ClassOf(m.role),
     kwargs |-> [content |-> m.content, tool_calls |-> m.tool_calls,
                 tool_call_id |-> m.tool_call_id]]

loadMessage(d) ==
    [role |-> RoleOf(d.id), content |-> d.kwargs.content,
     tool_calls |-> d.kwargs.tool_calls, tool_call_id |-> d.kwargs.tool_call_id]

dumps(messages) == [i \in 1..Len(messages) |-> dumpMessage(messages[i])]

loads(docs) == [i \in 1..Len(docs) |-> loadMessage(docs[i])]

\* A put that adds to the thread's record instead of replacing it.
put_Appends(records, t, messages) ==
    [records EXCEPT ![t] = records[t] \o dumps(messages)]

\* MongoDBSaver.put: the thread's latest checkpoint is replaced by the
\* serialized messages.
put(records, t, messages) == [records EXCEPT ![t] = dumps(messages)]

\* MongoDBSaver.getTuple: the thread's latest checkpoint, deserialized.
getTuple(records, t) == loads(records[t])

\* A put that ignores the thread id.
PutCheckpoint_AnyThread(store, t, messages) == [u \in DOMAIN store |-> messages]

\* A put that is dropped.
PutCheckpoint_Dropped(store, t, messages) == store

\* checkpointer.put for the thread, on the store kept as the messages a read
\* of each thread's latest checkpoint yields.
PutCheckpoint(store, t, messages) == [store EXCEPT ![t] = messages]

\* checkpointer.getTuple for the thread: <<>> when the thread is unknown.
GetCheckpoint(store, t) == store[t]

Running == {"input", "agent", "tools"}

\* Ends of a call of callAgent: its return, its rejections, the process's death.
Terminal == {"done", "provider_error", "recursion_error", "crashed"}

\* The test with the limit read as a number of AGENT -> TOOLS -> AGENT cycles
\* on top of the first AGENT turn.
OutOfSteps_Cycles(n) == n > 2 * RecursionLimit + 1

\* The loop's test of its step counter against recursionLimit, made after a
\* step's checkpoint and before the next node is run.
OutOfSteps(n) == n > RecursionLimit

\* A rejection that also throws the thread's checkpoint away.
Abort_Reset(r, e) ==
    /\ pc' = [pc EXCEPT ![r] = e]
    /\ saved' = [saved EXCEPT ![tid[r]] = <<>>]
    /\ UNCHANGED <<tid, msgs, step, response, ui>>

\* A rejection of app.invoke leaves callAgent at once: there is no catch, and
\* nothing is written to the store on the way out.
Abort(r, e) ==
    /\ pc' = [pc EXCEPT ![r] = e]
    /\ UNCHANGED <<saved, tid, msgs, step, response, ui>>

Init ==
    /\ saved = [t \in Threads |-> <<>>]
    /\ pc = [r \in Reqs |-> "idle"]
    /\ tid = [r \in Reqs |-> "t1"]
    /\ msgs = [r \in Reqs |-> <<>>]
    /\ step = [r \in Reqs |-> 0]
    /\ response = [r \in Reqs |-> <<>>]
    /\ ui = [threadId |-> NoThread, isLoading |-> FALSE, input |-> "",
             messages |-> <<>>, fetches |-> <<>>]

\* A start that takes the step counter up where the thread's stored history
\* left it, one step per stored message, instead of counting from this call.
Start_CarriesSteps(r) ==
    /\ pc[r] = "idle"
    /\ \A q \in Reqs : q < r => pc[q] # "idle"
    /\ \E t \in Threads :
         /\ tid' = [tid EXCEPT ![r] = t]
         /\ msgs' = [msgs EXCEPT ![r] =
                       Reducer(GetCheckpoint(saved, t), <<HumanMessage(Query(r))>>)]
         /\ step' = [step EXCEPT ![r] = Len(GetCheckpoint(saved, t))]
    /\ pc' = [pc EXCEPT ![r] = "input"]
    /\ UNCHANGED <<saved, response, ui>>

\* callAgent(client, query, thread_id) up to app.invoke loading the thread's
\* checkpoint and applying the input { messages: [new HumanMessage(query)] }.
Start(r) ==
    /\ pc[r] = "idle"
    /\ \A q \in Reqs : q < r => pc[q] # "idle"
    /\ \E t \in Threads :
         /\ tid' = [tid EXCEPT ![r] = t]
         /\ msgs' = [msgs EXCEPT ![r] =
                       Reducer(GetCheckpoint(saved, t), <<HumanMessage(Query(r))>>)]
    /\ step' = [step EXCEPT ![r] = 0]
    /\ pc' = [pc EXCEPT ![r] = "input"]
    /\ UNCHANGED <<saved, response, ui>>

\* The input step's checkpoint; the edge __start__ -> agent.
PutInput(r) ==
    /\ pc[r] = "input"
    /\ saved' = PutCheckpoint(saved, tid[r], msgs[r])
    /\ pc' = [pc EXCEPT ![r] = "agent"]
    /\ UNCHANGED <<tid, msgs, step, response, ui>>

\* One run of the node "agent": callModel, the reducer, the step's checkpoint,
\* then the conditional edge shouldContinue.
AgentStep(r) ==
    /\ pc[r] = "agent"
    /\ ~OutOfSteps(step[r])
    /\ \E n \in 0..MaxCalls, c \in Texts :
         LET new == Reducer(msgs[r], callModel(r, msgs[r], n, c))
         IN  /\ n > 1 => step[r] < 2 * MaxWideTurn
             /\ msgs' = [msgs EXCEPT ![r] = new]
             /\ saved' = PutCheckpoint(saved, tid[r], new)
             /\ pc' = [pc EXCEPT ![r] = shouldContinue(new)]
    /\ step' = [step EXCEPT ![r] = step[r] + 1]
    /\ UNCHANGED <<tid, response, ui>>

\* model.invoke rejects: nothing in callModel or callAgent catches it.
ModelFail(r) ==
    /\ pc[r] = "agent"
    /\ ~OutOfSteps(step[r])
    /\ Abort(r, "provider_error")

\* One run of the node "tools", the reducer, the step's checkpoint, then the
\* edge tools -> agent.
ToolsStep(r) ==
    /\ pc[r] = "tools"
    /\ ~OutOfSteps(step[r])
    /\ \E outs \in [1..Len(Last(msgs[r]).tool_calls) -> ToolResults] :
         LET new == Reducer(msgs[r], toolNode(msgs[r], outs))
         IN  /\ msgs' = [msgs EXCEPT ![r] = new]
             /\ saved' = PutCheckpoint(saved, tid[r], new)
    /\ pc' = [pc EXCEPT ![r] = "agent"]
    /\ step' = [step EXCEPT ![r] = step[r] + 1]
    /\ UNCHANGED <<tid, response, ui>>

\* The loop stops at the limit without a rejection: callAgent never settles.
RecursionError_Silent(r) ==
    /\ pc[r] \in {"agent", "tools"}
    /\ OutOfSteps(step[r])
    /\ UNCHANGED vars

\* The graph is out of steps: app.invoke rejects with the recursion error.
RecursionError(r) ==
    /\ pc[r] \in {"agent", "tools"}
    /\ OutOfSteps(step[r])
    /\ Abort(r, "recursion_error")

\* The process dies: every call in flight is lost, the store is kept.
Crash ==
    /\ \E r \in Reqs : pc[r] \in Running
    /\ pc' = [r \in Reqs |-> IF pc[r] \in Running THEN "crashed" ELSE pc[r]]
    /\ UNCHANGED <<saved, tid, msgs, step, response, ui>>

Next ==
    \/ \E r \in Reqs : Start(r)
    \/ \E r \in Reqs : PutInput(r)
    \/ \E r \in Reqs : AgentStep(r)
    \/ \E r \in Reqs : ModelFail(r)
    \/ \E r \in Reqs : ToolsStep(r)
    \/ \E r \in Reqs : RecursionError(r)
    \/ Crash

Spec == Init /\ [][Next]_vars

\* The steps of a started call: each continuation runs once the promise it
\* awaits settles.
Proceed(r) ==
    PutInput(r) \/ AgentStep(r) \/ ModelFail(r) \/ ToolsStep(r) \/ RecursionError(r)

FairSpec == Spec /\ \A r \in Reqs : WF_vars(Proceed(r))

(* ------------------- the tool and its ToolCalls' inputs ----------------- *)

\* JSON values of a ToolCall's args, as the provider sends them.
JString(s) == [t |-> "string", s |-> s, n |-> 0]
JNumber(n) == [t |-> "number", s |-> "", n |-> n]
JUndefined == [t |-> "undefined", s |-> "", n |-> 0]

\* tools = [principleLookupTool]: the names ToolNode can resolve.
ToolNames == {"principle_lookup"}

\* The documents of frontend_db.principles, in the store's scan order.
Principles == <<"p1", "p2", "p3", "p4">>

\* Similarity of a stored embedding to the query's embedding, in hundredths;
\* every query has an embedding, the empty string too; off "layout" two
\* documents have equal score.
Similarity(query, doc) ==
    IF query = "layout"
    THEN CASE doc = "p1" -> 40 [] doc = "p2" -> 90 [] doc = "p3" -> 10 [] OTHER -> 70
    ELSE CASE doc = "p1" -> 55 [] doc = "p2" -> 20 [] doc = "p3" -> 55 [] OTHER -> 80

\* What a response's ToolCall may look like: the registered tool with well
\* formed input (n absent, or given; the query may be the empty string, which
\* z.string() accepts), with input the schema rejects (query missing, query
\* not a string, n not a number), and a name no tool has.
CallShapes ==
    { [name |-> "principle_lookup", args |-> [query |-> JString("layout"), n |-> JUndefined]],
      [name |-> "principle_lookup", args |-> [query |-> JString("color"), n |-> JNumber(1)]],
      [name |-> "principle_lookup", args |-> [query |-> JString("color"), n |-> JNumber(2)]],
      [name |-> "principle_lookup", args |-> [query |-> JString("color"), n |-> JNumber(5)]],
      [name |-> "principle_lookup", args |-> [query |-> JString(""), n |-> JUndefined]],
      [name |-> "principle_lookup", args |-> [query |-> JUndefined, n |-> JUndefined]],
      [name |-> "principle_lookup", args |-> [query |-> JNumber(7), n |-> JUndefined]],
      [name |-> "principle_lookup", args |-> [query |-> JString("layout"), n |-> JString("two")]],
      [name |-> "web_search", args |-> [query |-> JString("layout"), n |-> JUndefined]] }

\* The ToolCall the model sends when it just looks a principle up.
PlainShape ==
    [name |-> "principle_lookup", args |-> [query |-> JString("layout"), n |-> JUndefined]]

\* Outcomes of the handler's external calls (embedding, $vectorSearch).
IOOutcomes == {"ok", "fail"}

\* The k-th ToolCall of the response at position pos, with its name and args.
ShapedToolCall(r, pos, k, shape) ==
    [id |-> <<r, pos, k>>, name |-> shape.name, args |-> shape.args]

\* callModel when the response's ToolCalls have the given shapes.
callModelShaped(r, messages, shapes, c) ==
    LET pos == Len(messages) + 1
        calls == [k \in 1..Len(shapes) |-> ShapedToolCall(r, pos, k, shapes[k])]
    IN  <<AIMessage(IF Len(shapes) = 0 THEN c ELSE "", calls)>>

Min(a, b) == IF a <= b THEN a ELSE b

\* Place of Principles[i] in the answer of $vectorSearch: by descending score,
\* equal scores in scan order.
Rank(query, i) ==
    1 + Cardinality({j \in 1..Len(Principles) :
                        \/ Similarity(query, Principles[j]) > Similarity(query, Principles[i])
                        \/ /\ Similarity(query, Principles[j]) = Similarity(query, Principles[i])
                           /\ j < i})

\* vectorStore.similaritySearchWithScore(query, k): the k nearest documents
\* with their scores, nearest first.
similaritySearchWithScore(query, k) ==
    [p \in 1..Min(k, Len(Principles)) |->
        LET i == CHOOSE i \in 1..Len(Principles) : Rank(query, i) = p
        IN  [doc |-> Principles[i], score |-> Similarity(query, Principles[i])]]

\* What running a tool comes to: a value returned or an error thrown.
Returned(docs) == [threw |-> FALSE, error |-> FALSE, docs |-> docs, text |-> ""]
Thrown(text) == [threw |-> TRUE, error |-> TRUE, docs |-> <<>>, text |-> text]

\* n = 3 in the handler's parameter and .default(3) in the schema.
DefaultN == 3

\* The schema: query a string, n a number or absent.
SchemaAccepts(args) ==
    /\ args.query.t = "string"
    /\ args.n.t \in {"number", "undefined"}

\* The handler with n taken as given, absent or not.
principleLookupTool_NoDefault(args, io) ==
    IF io = "fail"
    THEN Thrown("similarity search failed")
    ELSE Returned(similaritySearchWithScore(args.query.s, args.n.n))

\* The handler of principle_lookup on parsed input: async ({ query, n = 3 }).
principleLookupTool(args, io) ==
    LET n == IF args.n.t = "undefined" THEN DefaultN ELSE args.n.n
    IN  IF io = "fail"
        THEN Thrown("similarity search failed")
        ELSE Returned(similaritySearchWithScore(args.query.s, n))

\* tool.invoke(call): the lookup by name, the schema's parse, the handler.
InvokeTool(call, io) ==
    IF call.name \notin ToolNames
    THEN Thrown("tool not found")
    ELSE IF ~SchemaAccepts(call.args)
         THEN Thrown("input does not match the schema")
         ELSE principleLookupTool(call.args, io)

\* ToolNode running one call without its catch: the error leaves the node.
RunTool_NoCatch(call, io) == InvokeTool(call, io)

\* ToolNode running one call: what tool.invoke throws is caught and becomes
\* the content of the call's ToolMessage (handleToolErrors is on by default).
RunTool(call, io) ==
    LET out == InvokeTool(call, io)
    IN  IF out.threw
        THEN [threw |-> FALSE, error |-> TRUE, docs |-> <<>>,
              text |-> "Error: " \o out.text \o " Please fix your mistakes."]
        ELSE out

\* A call of callAgent with no other call made before or beside it.
StartAlone(r) ==
    /\ \A q \in Reqs : pc[q] = "idle"
    /\ Start(r)

\* One run of the node "agent" when the response's ToolCalls may have any
\* shape.
ShapedAgentStep(r) ==
    /\ pc[r] = "agent"
    /\ ~OutOfSteps(step[r])
    /\ \E n \in 0..MaxCalls, c \in Texts :
         \E shapes \in [1..n -> CallShapes] :
            LET new == Reducer(msgs[r], callModelShaped(r, msgs[r], shapes, c))
            IN  /\ step[r] >= 2 * MaxWideTurn
                      => (n <= 1 /\ \A k \in 1..n : shapes[k] = PlainShape)
                /\ msgs' = [msgs EXCEPT ![r] = new]
                /\ saved' = PutCheckpoint(saved, tid[r], new)
                /\ pc' = [pc EXCEPT ![r] = shouldContinue(new)]
    /\ step' = [step EXCEPT ![r] = step[r] + 1]
    /\ UNCHANGED <<tid, response, ui>>

\* One run of the node "tools" on calls of any shape: every call is run, and
\* an error that leaves the node rejects app.invoke.
ShapedToolsStep(r) ==
    /\ pc[r] = "tools"
    /\ ~OutOfSteps(step[r])
    /\ \E io \in [1..Len(Last(msgs[r]).tool_calls) -> IOOutcomes] :
         LET calls == Last(msgs[r]).tool_calls
             outs == [k \in 1..Len(calls) |-> RunTool(calls[k], io[k])]
             new == Reducer(msgs[r], toolNode(msgs[r], outs))
         IN  IF \E k \in 1..Len(calls) : outs[k].threw
             THEN Abort(r, "tool_error")
             ELSE /\ msgs' = [msgs EXCEPT ![r] = new]
                  /\ saved' = PutCheckpoint(saved, tid[r], new)
                  /\ pc' = [pc EXCEPT ![r] = "agent"]
                  /\ step' = [step EXCEPT ![r] = step[r] + 1]
                  /\ UNCHANGED <<tid, response, ui>>

ToolNext ==
    \/ \E r \in Reqs : StartAlone(r)
    \/ \E r \in Reqs : PutInput(r)
    \/ \E r \in Reqs : ShapedAgentStep(r)
    \/ \E r \in Reqs : ModelFail(r)
    \/ \E r \in Reqs : ShapedToolsStep(r)
    \/ \E r \in Reqs : RecursionError(r)
    \/ Crash

\* One call of callAgent, its model free in the ToolCalls it sends and the
\* tool's external calls free to fail.
ToolSpec == Init /\ [][ToolNext]_vars

(* ------------------ the Gemini variant of callAgent -------------------- *)

\* extra_content.google.thought_signature of a ToolCall as the provider may
\* send it: absent, a signature, or the empty string.
NoSignature == <<>>

ProviderSignatures == {NoSignature, <<"sig-a">>, <<"">>}

\* "skip_thought_signature_validator"
Placeholder == <<"skip_thought_signature_validator">>

\* The k-th ToolCall of a Gemini response, with what it carries as signature.
GeminiToolCall(r, pos, k, sig) ==
    [id |-> <<r, pos, k>>, name |-> "principle_lookup", thought_signature |-> sig]

\* The test never finding a tool message: the model with tools at every turn.
hasToolResult_Never(messages) ==
    \E i \in 1..Len(messages) : messages[i].role = "tool" /\ messages[i].role = "user"

\* hasToolResult = state.messages.some((m) => m._getType?.() === "tool")
hasToolResult(messages) ==
    \E i \in 1..Len(messages) : messages[i].role = "tool"

\* (hasToolResult ? modelNoTools : modelWithTools)
ModelFor(messages) ==
    IF hasToolResult(messages) THEN "modelNoTools" ELSE "modelWithTools"

\* The provider's answer to .invoke(formattedPrompt): text, or ToolCalls with
\* the signatures given.
GeminiResponse(r, messages, sigs, c) ==
    LET pos == Len(messages) + 1
        calls == [k \in 1..Len(sigs) |-> GeminiToolCall(r, pos, k, sigs[k])]
    IN  AIMessage(IF Len(sigs) = 0 THEN c ELSE "", calls)

\* The patch with = in the place of ??=.
patchSignature_Overwrites(result) ==
    IF Len(result.tool_calls) = 0
    THEN result
    ELSE [result EXCEPT !.tool_calls[1].thought_signature = Placeholder]

\* if (maybeToolCalls?.length) { first.extra_content ??= {}; ...
\* first.extra_content.google.thought_signature ??= "skip_..." }: ??= writes
\* only where the value is null or undefined.
patchSignature(result) ==
    IF Len(result.tool_calls) = 0
    THEN result
    ELSE [result EXCEPT !.tool_calls[1].thought_signature =
                            IF @ = NoSignature THEN Placeholder ELSE @]

\* The credential test made once app.invoke has loaded the thread and written
\* the input's checkpoint.
GeminiStart_ChecksLate(r) ==
    /\ pc[r] = "idle"
    /\ \A q \in Reqs : q < r => pc[q] \notin {"idle"} \cup Running
    /\ \E GOOGLE_API_KEY \in BOOLEAN, t \in Threads :
         LET new == Reducer(GetCheckpoint(saved, t), <<HumanMessage(Query(r))>>)
         IN  /\ tid' = [tid EXCEPT ![r] = t]
             /\ msgs' = [msgs EXCEPT ![r] = new]
             /\ saved' = PutCheckpoint(saved, t, new)
             /\ pc' = [pc EXCEPT ![r] = IF GOOGLE_API_KEY THEN "agent" ELSE "config_error"]
    /\ step' = [step EXCEPT ![r] = 0]
    /\ UNCHANGED <<response, ui>>

\* callAgent of the Gemini variant up to app.invoke's load: process.env is
\* read at every call, and a call made without GOOGLE_API_KEY throws before
\* anything else is done.  Calls are made one after another.
GeminiStart(r) ==
    /\ \A q \in Reqs : q < r => pc[q] \notin {"idle"} \cup Running
    /\ \E GOOGLE_API_KEY \in BOOLEAN :
         IF GOOGLE_API_KEY
         THEN Start(r)
         ELSE /\ pc[r] = "idle"
              /\ Abort(r, "config_error")

\* One run of the node "agent" of the Gemini variant: the model is chosen by
\* hasToolResult, its response is patched and appended.  Nothing in callModel
\* or shouldContinue depends on the model without tools sending no ToolCall,
\* so the response is free to carry some whichever model was asked.
GeminiAgentStep(r) ==
    /\ pc[r] = "agent"
    /\ ~OutOfSteps(step[r])
    /\ \E n \in 0..MaxCalls, c \in Texts :
         \E sigs \in [1..n -> ProviderSignatures] :
            LET result == GeminiResponse(r, msgs[r], sigs, c)
                new == Reducer(msgs[r], <<patchSignature(result)>>)
            IN  /\ step[r] >= 2 * MaxWideTurn
                      => (n <= 1 /\ \A k \in 1..n : sigs[k] = NoSignature)
                /\ response' = [response EXCEPT ![r] =
                                  <<[model |-> ModelFor(msgs[r]), result |-> result]>>]
                /\ msgs' = [msgs EXCEPT ![r] = new]
                /\ saved' = PutCheckpoint(saved, tid[r], new)
                /\ pc' = [pc EXCEPT ![r] = shouldContinue(new)]
    /\ step' = [step EXCEPT ![r] = step[r] + 1]
    /\ UNCHANGED <<tid, ui>>

GeminiNext ==
    \/ \E r \in Reqs : GeminiStart(r)
    \/ \E r \in Reqs : PutInput(r)
    \/ \E r \in Reqs : GeminiAgentStep(r)
    \/ \E r \in Reqs : ModelFail(r)
    \/ \E r \in Reqs : ToolsStep(r)
    \/ \E r \in Reqs : RecursionError(r)
    \/ Crash

\* Calls of the Gemini variant's callAgent, one after another.
GeminiSpec == Init /\ [][GeminiNext]_vars

(* ------------------------ the chat page (ChatApp) ----------------------- *)

\* backend state, which the page's handlers do not touch.
backend == <<saved, pc, tid, msgs, step, response>>

\* What the user may have in the input box when a key is pressed.
Typed == {"hi", " hi ", " "}

\* input.trim()
Trim(text) ==
    CASE text = " hi " -> "hi"
      [] text = " " -> ""
      [] OTHER -> text

\* The thread id the server generates for the i-th request of the page when
\* that request asks for a new conversation.
ServerThreadId(i) ==
    CASE i = 1 -> "1739739439130"
      [] i = 2 -> "1739739439131"
      [] i = 3 -> "1739739439132"
      [] OTHER -> "1739739439133"

\* url = threadId ? `${baseUrl}/chat/${threadId}` : `${baseUrl}/chat`
Url(threadId) ==
    IF threadId # NoThread THEN "/chat/" \o threadId ELSE "/chat"

\* What the server answers on a route: POST /chat answers with the generated
\* thread id and the response, POST /chat/{threadId} with the response alone,
\* an error answer with neither.
ServerAnswer(i, url, outcome) ==
    IF outcome = "error"
    THEN [threadId |-> NoThread, response |-> "undefined"]
    ELSE [threadId |-> IF url = "/chat" THEN ServerThreadId(i) ELSE NoThread,
          response |-> "FINAL ANSWER"]

\* How a fetch may end: a 2xx JSON answer, an error answer in JSON, or a
\* rejection (network failure, a body that is no JSON).
FetchOutcomes == {"ok", "error", "rejected"}

\* Requests of the page whose fetch has not settled.
Pending == {i \in 1..Len(ui.fetches) : ui.fetches[i].state = "pending"}

\* sendMessage up to its await fetch(...): the early return on an empty
\* message, the three state updates, and the request sent to the url chosen
\* from the threadId this call's closure holds.
sendMessage ==
    LET trimmedMessage == Trim(ui.input)
    IN  IF trimmedMessage = ""
        THEN UNCHANGED vars
        ELSE /\ Len(ui.fetches) < MaxSends
             /\ ui' = [ui EXCEPT
                         !.messages = Append(@, [sender |-> "user", text |-> trimmedMessage]),
                         !.input = "",
                         !.isLoading = TRUE,
                         !.fetches = Append(@, [url |-> Url(ui.threadId),
                                                threadId |-> ui.threadId,
                                                state |-> "pending"])]
             /\ UNCHANGED backend

\* onChange={(e) => setInput(e.target.value)}
TypeInput ==
    /\ \E text \in Typed : ui' = [ui EXCEPT !.input = text]
    /\ UNCHANGED backend

\* <Button onClick={sendMessage} disabled={isLoading}>
ClickSend ==
    /\ ~ui.isLoading
    /\ sendMessage

\* Keys pressed in the input box.
Keys == {"Enter", "Shift"}

\* handleKeyDown: if (e.key === "Enter") sendMessage()
handleKeyDown ==
    \E key \in Keys :
        IF key = "Enter" THEN sendMessage ELSE UNCHANGED vars

\* The rest of sendMessage, run when the fetch of request i settles: the
\* answer's threadId is stored when this call's closure holds none, the
\* answer (or the apology, in the catch) is appended, and finally isLoading
\* is reset.
Respond(i) ==
    /\ i \in Pending
    /\ \E outcome \in FetchOutcomes :
         LET call == ui.fetches[i]
             data == ServerAnswer(i, call.url, outcome)
             text == IF outcome = "rejected"
                     THEN "Sorry, there was an error."
                     ELSE data.response
         IN  ui' = [ui EXCEPT
                      !.threadId = IF /\ outcome # "rejected"
                                      /\ call.threadId = NoThread
                                      /\ data.threadId # NoThread
                                   THEN data.threadId
                                   ELSE @,
                      !.messages = Append(@, [sender |-> "agent", text |-> text]),
                      !.isLoading = FALSE,
                      !.fetches = [@ EXCEPT ![i].state = "settled"]]
    /\ UNCHANGED backend

UiNext ==
    \/ TypeInput
    \/ ClickSend
    \/ handleKeyDown
    \/ \E i \in 1..MaxSends : Respond(i)

\* One session of the chat page against a server that answers each request
\* at some time of its own.
UiSpec == Init /\ [][UiNext]_vars

(* ------------------------- reading a history --------------------------- *)

IsPrefix(s, t) == Len(s) <= Len(t) /\ SubSeq(t, 1, Len(s)) = s

\* Index of the last user message of s: the input of the invocation that
\* holds s; every later message was appended by that invocation.
LastUserIdx(s) ==
    LET U == {i \in 1..Len(s) : s[i].role = "user"}
    IN  IF U = {} THEN 0 ELSE CHOOSE i \in U : \A j \in U : j <= i

\* Indices of the agent messages the invocation of r has appended.
OwnAgentIdx(r) ==
    {i \in (LastUserIdx(msgs[r]) + 1)..Len(msgs[r]) : msgs[r][i].role = "agent"}

\* Indices of the agent messages of s that carry ToolCalls.
RequestIdx(s) == {i \in 1..Len(s) : s[i].role = "agent" /\ Len(s[i].tool_calls) > 0}

\* The agent message at i is followed by one tool message per ToolCall, in the
\* ToolCalls' order, each answering its call.
AnsweredInOrder(s, i) ==
    LET calls == s[i].tool_calls
    IN  /\ i + Len(calls) <= Len(s)
        /\ \A k \in 1..Len(calls) :
             /\ s[i + k].role = "tool"
             /\ s[i + k].tool_call_id = calls[k].id

\* Number of tool messages that directly follow position i.
ToolRun(s, i) ==
    LET stop == {j \in (i + 1)..(Len(s) + 1) : j = Len(s) + 1 \/ s[j].role # "tool"}
    IN  (CHOOSE j \in stop : \A m \in stop : j <= m) - i - 1

(* ------------------------------- claims -------------------------------- *)

\* C1: an invocation's first node is AGENT, and a response appended in AGENT
\* is followed by TOOLS exactly when it carries at least one ToolCall and by
\* DONE otherwise; the machine leaves AGENT with a response in no other way.
C1_AgentRouting ==
    [][\A r \in Reqs :
          /\ (pc[r] = "idle" /\ pc'[r] # "idle") => pc'[r] = "input"
          /\ (pc[r] = "input" /\ pc'[r] \notin {"input", "crashed"})
                => (pc'[r] = "agent" /\ msgs'[r] = msgs[r])
          /\ (pc[r] = "agent" /\ msgs'[r] # msgs[r])
                => /\ msgs'[r] = msgs[r] \o <<Last(msgs'[r])>>
                   /\ Last(msgs'[r]).role = "agent"
                   /\ pc'[r] \in {"tools", "done"}
                   /\ (pc'[r] = "tools") <=> (Len(Last(msgs'[r]).tool_calls) >= 1)
          /\ (pc[r] = "agent" /\ pc'[r] \in {"tools", "done"})
                => msgs'[r] # msgs[r]]_vars

\* C1 witness: one invocation has gone AGENT -> TOOLS on a response with
\* ToolCalls while another has gone AGENT -> DONE on a response without.
C1_Witness ==
    \E r, q \in Reqs :
        /\ pc[r] = "tools" /\ Len(Last(msgs[r]).tool_calls) >= 1
        /\ pc[q] = "done" /\ Last(msgs[q]).role = "agent"
        /\ Len(Last(msgs[q]).tool_calls) = 0

\* C2: a TOOLS phase appends exactly one tool message per ToolCall of the last
\* agent message, in the ToolCalls' order and with their ids, and goes back to
\* AGENT; in a completed invocation every requesting agent message it appended
\* is followed by exactly as many tool messages as it has ToolCalls.
C2_ToolsPhase ==
    /\ [][\A r \in Reqs :
            (pc[r] = "tools" /\ msgs'[r] # msgs[r])
               => LET calls == Last(msgs[r]).tool_calls
                  IN  /\ Len(calls) >= 1
                      /\ Len(msgs'[r]) = Len(msgs[r]) + Len(calls)
                      /\ IsPrefix(msgs[r], msgs'[r])
                      /\ AnsweredInOrder(msgs'[r], Len(msgs[r]))
                      /\ pc'[r] = "agent"]_vars
    /\ [](\A r \in Reqs :
            pc[r] = "done"
               => \A i \in OwnAgentIdx(r) :
                     /\ AnsweredInOrder(msgs[r], i)
                     /\ ToolRun(msgs[r], i) = Len(msgs[r][i].tool_calls))

\* C2 witness: a completed invocation whose TOOLS phase answered a batch of
\* two ToolCalls.
C2_Witness ==
    \E r \in Reqs :
        /\ pc[r] = "done"
        /\ \E i \in OwnAgentIdx(r) :
             /\ Len(msgs[r][i].tool_calls) = 2
             /\ msgs[r][i + 2].tool_call_id = msgs[r][i].tool_calls[2].id

\* AGENT turns the invocation of r has taken.
AgentTurns(r) == Cardinality(OwnAgentIdx(r))

\* Completed AGENT -> TOOLS -> AGENT cycles of the invocation of r: its agent
\* messages with ToolCalls whose TOOLS phase has run.
Cycles(r) ==
    Cardinality({i \in OwnAgentIdx(r) :
                    /\ Len(msgs[r][i].tool_calls) > 0
                    /\ AnsweredInOrder(msgs[r], i)})

\* AGENT turns that fit in recursionLimit steps of agent, tools, agent, ...
MaxAgentTurns == (RecursionLimit + 1) \div 2

\* C3 as claimed: the invocation fails with the recursion error exactly when
\* it has completed 15 AGENT -> TOOLS -> AGENT cycles.
C3_AsClaimed ==
    \A r \in Reqs : pc[r] = "recursion_error" => Cycles(r) = RecursionLimit

\* C3 as amended: recursionLimit 15 bounds the graph's steps, a run of AGENT
\* and a run of TOOLS each counting one.  The invocation fails with the
\* recursion error exactly when 8 AGENT turns have each requested a tool:
\* never after fewer, and a 9th AGENT turn never runs.
C3_RecursionLimit ==
    \A r \in Reqs :
        /\ AgentTurns(r) <= MaxAgentTurns
        /\ pc[r] = "recursion_error"
              => /\ AgentTurns(r) = MaxAgentTurns
                 /\ \A i \in OwnAgentIdx(r) : Len(msgs[r][i].tool_calls) > 0
                 /\ Cycles(r) < RecursionLimit
        /\ (pc[r] = "agent" /\ AgentTurns(r) = MaxAgentTurns) => OutOfSteps(step[r])
        /\ (pc[r] \in Running /\ OutOfSteps(step[r])) => AgentTurns(r) = MaxAgentTurns

\* C3 witness: an invocation has failed with the recursion error.
C3_Witness ==
    \E r \in Reqs : pc[r] = "recursion_error" /\ AgentTurns(r) = MaxAgentTurns

\* C4: every started invocation ends: it returns, or it fails with the
\* recursion error or another fatal error; it does not go between AGENT and
\* TOOLS forever.
C4_Terminates ==
    \A r \in Reqs : (pc[r] \in Running) ~> (pc[r] \in Terminal)

\* C4 witness: an invocation whose model asked for a tool on every turn has
\* been ended by the recursion error, and another has returned.
C4_Witness ==
    \E r, q \in Reqs :
        /\ pc[r] = "recursion_error" /\ Cycles(r) >= 1
        /\ pc[q] = "done"

C6_MutualExclusion ==
    \A r, q \in Reqs :
        (r # q /\ pc[r] \in Running /\ pc[q] \in Running) => tid[r] # tid[q]

\* C7 as claimed: each persisted state of a thread is a prefix of every later
\* persisted state of that thread.
C7_AppendOnly ==
    [][\A t \in Threads :
          IsPrefix(GetCheckpoint(saved, t), GetCheckpoint(saved', t))]_vars

\* What a call of callAgent holds in memory.
Local(r) == <<pc[r], tid[r], msgs[r], step[r]>>

\* C8: a step of an invocation on one thread id changes the checkpoint of no
\* other thread id and nothing held by another invocation, and an invocation
\* starts from nothing but the checkpoint of its own thread id and its query.
C8_ThreadIsolation ==
    [][\A r \in Reqs :
          (Local(r)' # Local(r))
             => /\ \A u \in Threads \ {tid'[r]} : saved'[u] = saved[u]
                /\ pc'[r] # "crashed"
                      => \A q \in Reqs \ {r} : Local(q)' = Local(q)
                /\ pc[r] = "idle"
                      => msgs'[r] = GetCheckpoint(saved, tid'[r]) \o <<HumanMessage(Query(r))>>]_vars

\* C8 witness: two invocations have run side by side on different thread ids,
\* one of them through a TOOLS phase, and each thread's checkpoint is what its
\* own invocation wrote.
C8_Witness ==
    \E r, q \in Reqs :
        /\ tid[r] # tid[q]
        /\ pc[r] = "done" /\ step[r] >= 3
        /\ pc[q] = "tools"
        /\ GetCheckpoint(saved, tid[r]) = msgs[r]
        /\ GetCheckpoint(saved, tid[q]) = msgs[q]

\* Every tool message of s answers exactly one ToolCall of the nearest agent
\* message before it, and every ToolCall of an agent message of s has exactly
\* one tool message answering it.
WellPaired(s) ==
    /\ \A i \in 1..Len(s) :
          s[i].role = "tool"
             => LET A == {j \in 1..(i - 1) : s[j].role = "agent"}
                IN  /\ A # {}
                    /\ LET j == CHOOSE j \in A : \A m \in A : m <= j
                       IN  Cardinality({k \in 1..Len(s[j].tool_calls) :
                                           s[j].tool_calls[k].id = s[i].tool_call_id}) = 1
    /\ \A j \in RequestIdx(s) :
          \A k \in 1..Len(s[j].tool_calls) :
             Cardinality({i \in 1..Len(s) :
                             /\ s[i].role = "tool"
                             /\ s[i].tool_call_id = s[j].tool_calls[k].id}) = 1

\* C9 as claimed: at the start of every AGENT turn, in every reachable thread
\* history, tool messages and ToolCalls pair one to one.
C9_PairedAtAgentTurn ==
    \A r \in Reqs :
        (pc[r] = "agent" /\ ~OutOfSteps(step[r])) => WellPaired(msgs[r])

\* C10: a fatal error or a crash ends only the invocation it strikes and
\* changes no checkpoint, and an invocation starts from the checkpoint of its
\* thread id as it then is, with its own step budget.
C10_AbortKeepsCheckpoint ==
    [][\A r \in Reqs :
          /\ (pc[r] \in Running /\ pc'[r] \in Terminal \ {"done"})
                => /\ saved' = saved
                   /\ \A q \in Reqs \ {r} :
                         pc'[q] = pc[q] \/ (pc[q] \in Running /\ pc'[q] = "crashed")
          /\ (pc[r] = "idle" /\ pc'[r] # "idle")
                => /\ msgs'[r] = GetCheckpoint(saved, tid'[r]) \o <<HumanMessage(Query(r))>>
                   /\ step'[r] = 0]_vars

\* C10 witness: an invocation failed with the recursion error, and a later
\* invocation on the same thread id took up the history it left and has run
\* to DONE.
C10_Witness ==
    \E r, q \in Reqs :
        /\ r # q /\ tid[r] = tid[q]
        /\ pc[r] = "recursion_error"
        /\ pc[q] = "done"
        /\ IsPrefix(msgs[r], msgs[q])
        /\ LastUserIdx(msgs[q]) = Len(msgs[r]) + 1
        /\ GetCheckpoint(saved, tid[q]) = msgs[q]

(* ------------------- claims on the tool and its errors ------------------ *)

\* Indices of the tool messages the invocation of r has appended.
OwnToolIdx(r) ==
    {i \in (LastUserIdx(msgs[r]) + 1)..Len(msgs[r]) : msgs[r][i].role = "tool"}

\* The claim's cases of a ToolCall that cannot be run.
UnknownTool(call) == call.name # "principle_lookup"
MissingQuery(call) == call.args.query.t = "undefined"
NonStringQuery(call) == call.args.query.t \notin {"string", "undefined"}
NonNumericN(call) == call.args.n.t \notin {"number", "undefined"}
Unrunnable(call) ==
    UnknownTool(call) \/ MissingQuery(call) \/ NonStringQuery(call) \/ NonNumericN(call)

\* C11: a TOOLS phase whose batch holds a ToolCall with an unregistered name
\* or with input the schema rejects (query missing, query not a string, n not
\* a number) does not abort the invocation: that call gets one tool message,
\* with its id and an error for content, and the machine goes back to AGENT.
C11_BadCallRecoverable ==
    [][\A r \in Reqs :
          (pc[r] = "tools" /\ pc'[r] \notin {"tools", "crashed"})
             => LET calls == Last(msgs[r]).tool_calls
                    base == Len(msgs[r])
                IN  /\ pc'[r] = "agent"
                    /\ Len(msgs'[r]) = base + Len(calls)
                    /\ \A k \in 1..Len(calls) :
                          Unrunnable(calls[k])
                             => /\ msgs'[r][base + k].role = "tool"
                                /\ msgs'[r][base + k].tool_call_id = calls[k].id
                                /\ msgs'[r][base + k].content.error
                                /\ msgs'[r][base + k].content.docs = <<>>
                                /\ Cardinality({j \in (base + 1)..Len(msgs'[r]) :
                                      msgs'[r][j].tool_call_id = calls[k].id}) = 1]_vars

\* C11 witness: a batch of a call to an unregistered tool and a call without
\* query was answered by two error messages, and the model, consulted again,
\* has given its answer.
C11_Witness ==
    \E r \in Reqs :
        /\ pc[r] = "done"
        /\ \E i \in OwnAgentIdx(r) :
             /\ Len(msgs[r][i].tool_calls) = 2
             /\ UnknownTool(msgs[r][i].tool_calls[1])
             /\ MissingQuery(msgs[r][i].tool_calls[2])
             /\ msgs[r][i + 1].content.error
             /\ msgs[r][i + 2].content.error
             /\ msgs[r][i + 3].role = "agent"

\* C12: in a TOOLS phase every ToolCall of the batch gets exactly one tool
\* message of its own, a result or an error, whichever calls of the batch
\* fail: a failed call takes no other call's message away.
C12_BatchIndependent ==
    [][\A r \in Reqs :
          (pc[r] = "tools" /\ msgs'[r] # msgs[r])
             => LET calls == Last(msgs[r]).tool_calls
                    new == {j \in (Len(msgs[r]) + 1)..Len(msgs'[r]) : TRUE}
                IN  /\ \A j \in new : msgs'[r][j].role = "tool"
                    /\ Cardinality(new) = Len(calls)
                    /\ \A k \in 1..Len(calls) :
                          \E j \in new :
                             /\ msgs'[r][j].tool_call_id = calls[k].id
                             /\ \A m \in new \ {j} :
                                   msgs'[r][m].tool_call_id # calls[k].id
                             /\ msgs'[r][j].content.error => msgs'[r][j].content.docs = <<>>
                             /\ Unrunnable(calls[k]) => msgs'[r][j].content.error]_vars

\* C12 witness: of a batch of two well-formed calls the first failed in its
\* search and the second returned its documents.
C12_Witness ==
    \E r \in Reqs :
        \E i \in OwnAgentIdx(r) :
             /\ Len(msgs[r][i].tool_calls) = 2
             /\ i + 2 <= Len(msgs[r])
             /\ ~Unrunnable(msgs[r][i].tool_calls[1])
             /\ msgs[r][i + 1].content.error
             /\ ~msgs[r][i + 2].content.error
             /\ Len(msgs[r][i + 2].content.docs) >= 1

\* The content ToolNode gives the message of a call whose search failed.
SearchFailed(m) ==
    m.role = "tool" /\ m.content.error /\ m.content.text = RunTool(PlainShape, "fail").text

\* Failed searches at the end of the tool messages the invocation of r has
\* appended: the tool's consecutive failures so far.
TrailingFailures(r) ==
    Cardinality({i \in OwnToolIdx(r) :
                    \A j \in OwnToolIdx(r) : j >= i => SearchFailed(msgs[r][j])})

\* C13 as claimed: there is a maximum N of consecutive failures of the tool
\* at which the invocation is aborted, so that no invocation goes on, or
\* returns, with N consecutive failures behind it.  N ranges over the numbers
\* of TOOLS phases an invocation can have before its last.
C13_FailureCeiling ==
    \E N \in 1..(MaxAgentTurns - 1) :
        \A r \in Reqs :
            TrailingFailures(r) >= N => pc[r] \notin {"agent", "tools", "done"}

\* C20: the documents a lookup returns are at most n, n being the call's n or
\* 3 when the call gives none, and are in order of non-increasing score; with
\* no n given and more than 3 documents stored they are exactly 3.
C20_AtMostKSorted ==
    \A r \in Reqs :
        \A i \in RequestIdx(msgs[r]) :
            AnsweredInOrder(msgs[r], i)
               => \A k \in 1..Len(msgs[r][i].tool_calls) :
                     LET call == msgs[r][i].tool_calls[k]
                         out == msgs[r][i + k].content
                         n == IF call.args.n.t = "number" THEN call.args.n.n ELSE 3
                     IN  (~out.error)
                            => /\ Len(out.docs) <= n
                               /\ \A a, b \in 1..Len(out.docs) :
                                     a < b => out.docs[a].score >= out.docs[b].score
                               /\ \A a, b \in 1..Len(out.docs) :
                                     a # b => out.docs[a].doc # out.docs[b].doc
                               /\ call.args.n.t = "undefined"
                                     => Len(out.docs) = Min(3, Len(Principles))

\* C20 witness: one batch held a lookup without n, answered with 3 documents,
\* and a lookup with n = 2 over two documents of equal score, answered with 2.
C20_Witness ==
    \E r \in Reqs :
        \E i \in RequestIdx(msgs[r]) :
            /\ AnsweredInOrder(msgs[r], i)
            /\ Len(msgs[r][i].tool_calls) = 2
            /\ msgs[r][i].tool_calls[1].args.n.t = "undefined"
            /\ msgs[r][i].tool_calls[1].args.query.t = "string"
            /\ msgs[r][i].tool_calls[1].name = "principle_lookup"
            /\ Len(msgs[r][i + 1].content.docs) = 3
            /\ msgs[r][i].tool_calls[2].args.n = JNumber(2)
            /\ Len(msgs[r][i + 2].content.docs) = 2
            /\ msgs[r][i + 2].content.docs[1].score > msgs[r][i + 2].content.docs[2].score

\* A lookup whose query is the empty string.
EmptyQuery(call) ==
    /\ call.name \in ToolNames
    /\ call.args.query = JString("")

\* C21: a lookup with an empty query is answered with the empty sequence and
\* without a call to the embedding provider or the vector store: its answer
\* is no failure of the search (only a search that ran can fail) and holds no
\* document (only the store yields documents).
C21_EmptyQueryGuard ==
    \A r \in Reqs :
        \A i \in RequestIdx(msgs[r]) :
            AnsweredInOrder(msgs[r], i)
               => \A k \in 1..Len(msgs[r][i].tool_calls) :
                     EmptyQuery(msgs[r][i].tool_calls[k])
                        => /\ ~msgs[r][i + k].content.error
                           /\ msgs[r][i + k].content.docs = <<>>

(* --------------------- claims on threads and the store ------------------ *)

\* The checkpoints collection holding what saved stands for.
Records == [t \in Threads |-> dumps(saved[t])]

QuietThreads ==
    {t \in Threads :
        /\ \E r \in Reqs : pc[r] # "idle" /\ tid[r] = t
        /\ \A r \in Reqs :
              (pc[r] # "idle" /\ tid[r] = t)
                 => /\ pc[r] = "done"
                    /\ \A i \in OwnAgentIdx(r) : Len(msgs[r][i].tool_calls) = 0}

\* The calls made on thread id t, in call order.
CallsOn(t) == {r \in Reqs : pc[r] # "idle" /\ tid[r] = t}

\* C16 as claimed: after n completed invocations on a thread id, none with a
\* response that requests a tool, the persisted thread holds exactly n user
\* and n agent messages, alternating user, agent, the user messages being the
\* calls' queries in call order; each call returned the content of the agent
\* message it appended.
C16_NoToolAlternation ==
    \A t \in QuietThreads :
        LET h == GetCheckpoint(saved, t)
            n == Cardinality(CallsOn(t))
        IN  /\ Len(h) = 2 * n
            /\ \A i \in 1..Len(h) :
                  h[i].role = IF i % 2 = 1 THEN "user" ELSE "agent"
            /\ \A r \in CallsOn(t) :
                  LET k == Cardinality({q \in CallsOn(t) : q <= r})
                  IN  /\ h[2 * k - 1] = HumanMessage(Query(r))
                      /\ h[2 * k] = Last(msgs[r])

\* C17: an invocation starts from the messages stored for its thread id with
\* its user message appended at the end, which is the user message alone when
\* nothing is stored for the thread id.
C17_LoadOrInit ==
    [][\A r \in Reqs :
          (pc[r] = "idle" /\ pc'[r] # "idle")
             => LET h == GetCheckpoint(saved, tid'[r])
                IN  /\ h = <<>> => msgs'[r] = <<HumanMessage(Query(r))>>
                    /\ Len(msgs'[r]) = Len(h) + 1
                    /\ SubSeq(msgs'[r], 1, Len(h)) = h
                    /\ Last(msgs'[r]) = HumanMessage(Query(r))]_vars

\* C17 witness: a first call found nothing stored and started, and returned,
\* from its user message alone; a second call on the thread id has started
\* from what the first left, with its own user message at the end.
C17_Witness ==
    \E r, q \in Reqs :
        /\ r # q /\ tid[r] = tid[q]
        /\ pc[r] = "done" /\ LastUserIdx(msgs[r]) = 1
        /\ pc[q] = "input"
        /\ msgs[q] = msgs[r] \o <<HumanMessage(Query(q))>>

\* The agent messages of the invocation of r whose TOOLS phase has run: the
\* message is followed by a tool message.
OwnToolPhases(r) ==
    {i \in OwnAgentIdx(r) : i < Len(msgs[r]) /\ msgs[r][i + 1].role = "tool"}

\* C18: the step counter of an invocation counts the steps of that invocation
\* alone -- one per AGENT turn and one per TOOLS phase since its own user
\* message, whatever the thread held before -- it is 0 when the invocation
\* starts and never passes the limit by more than the step that trips it; an
\* invocation ended by the recursion error has itself used the whole budget.
C18_StepsPerInvocation ==
    \A r \in Reqs :
        /\ step[r] = AgentTurns(r) + Cardinality(OwnToolPhases(r))
        /\ pc[r] \in {"idle", "input"} => step[r] = 0
        /\ step[r] <= RecursionLimit + 1
        /\ AgentTurns(r) <= RecursionLimit
        /\ pc[r] = "recursion_error" => step[r] = RecursionLimit + 1

\* C18 witness: an invocation used up its steps and failed with the recursion
\* error, and a later invocation on the same thread id, starting behind that
\* history, has again taken the most AGENT turns an invocation can.
C18_Witness ==
    \E r, q \in Reqs :
        /\ r # q /\ tid[r] = tid[q]
        /\ pc[r] = "recursion_error"
        /\ LastUserIdx(msgs[q]) = Len(msgs[r]) + 1
        /\ AgentTurns(q) = MaxAgentTurns
        /\ pc[q] = "recursion_error"

C22_NoProcessingWithoutKey ==
    [][\A r \in Reqs :
          /\ (pc[r] = "idle" /\ pc'[r] = "config_error")
                => /\ saved' = saved
                   /\ msgs'[r] = <<>> /\ step'[r] = 0 /\ response'[r] = <<>>
          /\ pc[r] = "config_error"
                => /\ pc'[r] = "config_error"
                   /\ msgs'[r] = <<>> /\ step'[r] = 0 /\ response'[r] = <<>>]_vars

\* C22 witness: a call has run to DONE and left a history in the store; the
\* next call found no GOOGLE_API_KEY and failed, the store still holding that
\* history.
C22_Witness ==
    \E q, r \in Reqs :
        /\ q < r
        /\ pc[q] = "done"
        /\ pc[r] = "config_error"
        /\ GetCheckpoint(saved, tid[q]) = msgs[q]
        /\ msgs[r] = <<>>

\* The last message of r's history is the response of r's latest model call.
JustAnswered(r) ==
    /\ response[r] # <<>>
    /\ Len(msgs[r]) > 0
    /\ Last(msgs[r]).role = "agent"

\* C23: the model is asked without tools only when a tool message is among
\* the messages the running invocation appended before the call; a call made
\* right behind the new user message of a later invocation on the thread is
\* made with tools.
C23_ToolsAgainOnNewInput ==
    \A r \in Reqs :
        JustAnswered(r) /\ response[r][1].model = "modelNoTools"
           => hasToolResult(SubSeq(msgs[r], LastUserIdx(msgs[r]) + 1, Len(msgs[r]) - 1))

\* The model without tools has sent no ToolCall in the invocation of r.
NoToolsObeyed(r) ==
    \A i \in OwnAgentIdx(r) :
        hasToolResult(SubSeq(msgs[r], 1, i - 1)) => Len(msgs[r][i].tool_calls) = 0

\* C24: in the Gemini variant, as long as the model without tools sends no
\* ToolCall, an invocation runs at most one TOOLS phase and three steps
\* (AGENT, TOOLS, AGENT), never is out of steps and never ends with the
\* recursion error.
C24_OneToolsPhase ==
    \A r \in Reqs :
        NoToolsObeyed(r)
           => /\ Cardinality(OwnToolPhases(r)) <= 1
              /\ step[r] <= 3
              /\ ~OutOfSteps(step[r])
              /\ pc[r] # "recursion_error"

\* C24 witness: an invocation has run AGENT, TOOLS, AGENT and is DONE, its
\* second AGENT turn made without tools.
C24_Witness ==
    \E r \in Reqs :
        /\ pc[r] = "done"
        /\ NoToolsObeyed(r)
        /\ Cardinality(OwnToolPhases(r)) = 1
        /\ step[r] = 3
        /\ response[r][1].model = "modelNoTools"

\* C25: the message callModel appends is the provider's response with one
\* field at most changed: a first ToolCall that came with a signature is kept
\* as it came, a first ToolCall that came without gets the placeholder, every
\* other ToolCall is kept as it came, and so is a response without ToolCalls.
C25_SignaturePreserved ==
    \A r \in Reqs :
        JustAnswered(r)
           => LET sent == response[r][1].result
                  kept == Last(msgs[r])
              IN  /\ kept.content = sent.content
                  /\ Len(kept.tool_calls) = Len(sent.tool_calls)
                  /\ \A k \in 2..Len(sent.tool_calls) :
                        kept.tool_calls[k] = sent.tool_calls[k]
                  /\ Len(sent.tool_calls) = 0 => kept = sent
                  /\ Len(sent.tool_calls) > 0
                        => /\ kept.tool_calls[1].id = sent.tool_calls[1].id
                           /\ kept.tool_calls[1].name = sent.tool_calls[1].name
                           /\ sent.tool_calls[1].thought_signature # NoSignature
                                 => kept.tool_calls[1] = sent.tool_calls[1]
                           /\ sent.tool_calls[1].thought_signature = NoSignature
                                 => kept.tool_calls[1].thought_signature = Placeholder

\* C25 witness: one response came with an empty-string signature on its first
\* ToolCall and none on its second, and was appended as it came; another came
\* with no signature on its first ToolCall, which got the placeholder.
C25_Witness ==
    \E q, r \in Reqs :
        /\ q # r
        /\ JustAnswered(q) /\ JustAnswered(r)
        /\ Len(response[q][1].result.tool_calls) = 2
        /\ response[q][1].result.tool_calls[1].thought_signature = <<"">>
        /\ response[q][1].result.tool_calls[2].thought_signature = NoSignature
        /\ Last(msgs[q]) = response[q][1].result
        /\ Len(response[r][1].result.tool_calls) > 0
        /\ response[r][1].result.tool_calls[1].thought_signature = NoSignature
        /\ Last(msgs[r]).tool_calls[1].thought_signature = Placeholder

(* ------------------------ claims on the chat page ----------------------- *)

\* C26: the page never has more than one chat request in flight.
C26_OneRequestInFlight == Cardinality(Pending) <= 1

\* C27: one session uses one thread: at most one request of the session went
\* to POST /chat, and every other request went to /chat/{threadId} for the
\* threadId the page holds, which is therefore the same for all of them.
C27_OneThreadPerSession ==
    /\ Cardinality({i \in 1..Len(ui.fetches) : ui.fetches[i].url = "/chat"}) <= 1
    /\ \A i \in 1..Len(ui.fetches) :
          ui.fetches[i].url # "/chat"
             => ui.threadId # NoThread /\ ui.fetches[i].url = Url(ui.threadId)

====
